---- MODULE Spec2Model ----
(***************************************************************************)
(* A model of investinglive-digest: the conditional fetch with retry,      *)
(* backoff and the revalidation cache file (ilive_feed.polite_fetch), the  *)
(* entry normalizer (parse_feed) and the filter stage (filter_items).      *)
(*                                                                         *)
(* Durations are in tenths of a second (backoff = 1.0 is 10), so that      *)
(* backoff + 0.1 * attempt stays an integer.                               *)
(***************************************************************************)
EXTENDS Integers, Sequences, FiniteSets, TLC

\* ------------------------------------------------------------------ bounds
\* Largest max_retries a modelled call of polite_fetch is given.
MaxRetriesBound == 6
\* max_retries of each of the two concurrent calls of SpecConc.
ConcRetriesBound == 2

\* ------------------------------------------------------- program constants
\* backoff = 1.0
InitialBackoff == 10
\* min(backoff * 2, 30)
BackoffCap == 300

\* ----------------------------------------------------------------- values
\* Python's None.
None == "None"
\* bool(v) of an optional string.
Truthy(v) == v # None /\ v # ""
\* Python's `a or b`.
Or(a, b) == IF Truthy(a) THEN a ELSE b
Min(a, b) == IF a <= b THEN a ELSE b

\* The two threads that may serve /digest at once.
Procs == {1, 2}

\* What r.headers.get("ETag") / r.headers.get("Last-Modified") may yield.
ETagHeaders == {None, "", "e2"}
LastModifiedHeaders == {None, "m2"}
\* r.text of a 200 response.
Bodies == {"b1", "b2"}
\* _save_cache is best effort: the dump succeeds, open() fails (file as it
\* was), or the write fails after open(..., "w") truncated the file.
SaveOutcomes == {"ok", "open_fails", "write_fails"}

\* Results of a call.
Pending == "<pending>"
Raised == "<httpx.HTTPError>"

\* ------------------------------------------------------------ cache file
NoFile == [kind |-> "absent", etag |-> None, last_modified |-> None, fetched_at |-> 0]
BadFile == [kind |-> "corrupt", etag |-> None, last_modified |-> None, fetched_at |-> 0]
JsonFile(d) ==
  [kind |-> "json", etag |-> d.etag, last_modified |-> d.last_modified,
   fetched_at |-> d.fetched_at]

\* The files a run of the program can leave behind before a call starts.
InitialFiles ==
  {NoFile, BadFile} \cup
  {JsonFile([etag |-> e, last_modified |-> m, fetched_at |-> 0]) :
     e \in {None, "e1"}, m \in {None, "m1"}}

EmptyDict == [etag |-> None, last_modified |-> None]

\* _load_cache: the dict read, as the values cache.get(...) gives; {} when the
\* file is absent or does not parse.
LoadCache(file) ==
  IF file.kind = "json"
    THEN [etag |-> file.etag, last_modified |-> file.last_modified]
    ELSE EmptyDict

\* _save_cache(new_cache), with the outcome of the I/O.
SaveCache(file, new_cache, outcome) ==
  CASE outcome = "ok" -> JsonFile(new_cache)
    [] outcome = "open_fails" -> file
    [] OTHER -> BadFile

\* Mutant of NewCache: the validators of the response alone, without the
\* `or cache.get(...)` fallback.
NewCacheNoFallback(resp, cache, now) ==
  [etag |-> resp.etag, last_modified |-> resp.last_modified, fetched_at |-> now]

\* new_cache of the 200 branch.
NewCache(resp, cache, now) ==
  [etag |-> Or(resp.etag, cache.etag),
   last_modified |-> Or(resp.last_modified, cache.last_modified),
   fetched_at |-> now]

\* Mutant of NextBackoff: the doubling without the cap.
NextBackoffUncapped(b) == b * 2

\* min(backoff * 2, 30)
NextBackoff(b) == Min(b * 2, BackoffCap)

\* time.sleep(backoff + (0.1 * attempt)) of the 429/503 branch.
BusySleep(b, n) == b + n
\* time.sleep(backoff) of the except branch.
ErrorSleep(b, n) == b

\* The conditional headers sent with every attempt of a call.
Headers(c) ==
  [if_none_match |-> IF Truthy(c.etag) THEN c.etag ELSE None,
   if_modified_since |-> IF Truthy(c.last_modified) THEN c.last_modified ELSE None]

NoResp == [etag |-> None, last_modified |-> None, body |-> "", save |-> "none"]

\* ------------------------------------------------------------------ text
\* A Python str is the sequence of its characters; an Optional value is
\* Nothing (None) or Some(v).
Nothing == [has |-> FALSE]
Some(v) == [has |-> TRUE, val |-> v]

LowerCase == <<"a", "b", "c", "d", "e", "f", "g", "h", "i", "j", "k", "l", "m",
               "n", "o", "p", "q", "r", "s", "t", "u", "v", "w", "x", "y", "z">>
UpperCase == <<"A", "B", "C", "D", "E", "F", "G", "H", "I", "J", "K", "L", "M",
               "N", "O", "P", "Q", "R", "S", "T", "U", "V", "W", "X", "Y", "Z">>
Digits == <<"0", "1", "2", "3", "4", "5", "6", "7", "8", "9">>

IndexIn(c, s) == CHOOSE i \in 1..Len(s) : s[i] = c
IsIn(c, s) == \E i \in 1..Len(s) : s[i] = c

\* str.upper() and str.lower(), character by character.
UpperChar(c) == IF IsIn(c, LowerCase) THEN UpperCase[IndexIn(c, LowerCase)] ELSE c
LowerChar(c) == IF IsIn(c, UpperCase) THEN LowerCase[IndexIn(c, UpperCase)] ELSE c
RECURSIVE Upper(_)
Upper(s) == IF s = <<>> THEN <<>> ELSE <<UpperChar(Head(s))>> \o Upper(Tail(s))
RECURSIVE Lower(_)
Lower(s) == IF s = <<>> THEN <<>> ELSE <<LowerChar(Head(s))>> \o Lower(Tail(s))

\* The regular expression class \w.
IsWordChar(c) == IsIn(c, LowerCase) \/ IsIn(c, UpperCase) \/ IsIn(c, Digits) \/ c = "_"

\* The order of two characters, and of two strings as Python compares them.
\* Only the characters of a formatted timestamp are ever compared.
CharLess(a, b) == IndexIn(a, Digits) < IndexIn(b, Digits)
RECURSIVE StrLess(_, _)
StrLess(a, b) ==
  IF b = <<>> THEN FALSE
  ELSE IF a = <<>> THEN TRUE
  ELSE IF Head(a) = Head(b) THEN StrLess(Tail(a), Tail(b))
  ELSE CharLess(Head(a), Head(b))

\* KEYWORD_TAGS in the order of the dict literal. Each pattern is
\* \b(a1|a2|...)\b; the optional parts ([- ]?, s?) are expanded into
\* alternatives.
KEYWORD_TAGS ==
  <<
    [alts |-> {<<"x", "a", "u">>,
               <<"g", "o", "l", "d">>},
     tag |-> <<"#", "X", "A", "U">>],
    [alts |-> {<<"s", "i", "l", "v", "e", "r">>,
               <<"x", "a", "g">>},
     tag |-> <<"#", "X", "A", "G">>],
    [alts |-> {<<"d", "x", "y">>,
               <<"u", "s", " ", "d", "o", "l", "l", "a", "r">>,
               <<"g", "r", "e", "e", "n", "b", "a", "c", "k">>,
               <<"u", "s", "d", " ", "i", "n", "d", "e", "x">>,
               <<"d", "o", "l", "l", "a", "r", " ", "i", "n", "d", "e", "x">>},
     tag |-> <<"#", "D", "X", "Y">>],
    [alts |-> {<<"e", "u", "r", "/", "u", "s", "d">>,
               <<"e", "u", "r", "u", "s", "d">>,
               <<"e", "u", "r", "o">>},
     tag |-> <<"#", "E", "U", "R", "U", "S", "D">>],
    [alts |-> {<<"u", "s", "d", "/", "j", "p", "y">>,
               <<"u", "s", "d", "j", "p", "y">>,
               <<"y", "e", "n">>},
     tag |-> <<"#", "U", "S", "D", "J", "P", "Y">>],
    [alts |-> {<<"g", "b", "p", "/", "u", "s", "d">>,
               <<"g", "b", "p", "u", "s", "d">>,
               <<"s", "t", "e", "r", "l", "i", "n", "g">>,
               <<"p", "o", "u", "n", "d">>},
     tag |-> <<"#", "G", "B", "P", "U", "S", "D">>],
    [alts |-> {<<"w", "t", "i">>,
               <<"b", "r", "e", "n", "t">>,
               <<"c", "r", "u", "d", "e">>,
               <<"o", "i", "l">>},
     tag |-> <<"#", "O", "I", "L">>],
    [alts |-> {<<"c", "o", "p", "p", "e", "r">>},
     tag |-> <<"#", "H", "G">>],
    [alts |-> {<<"1", "0", "-", "y", "e", "a", "r">>,
               <<"1", "0", " ", "y", "e", "a", "r">>,
               <<"1", "0", "y", "e", "a", "r">>,
               <<"1", "0", "y">>,
               <<"u", "s", "t", "1", "0">>,
               <<"u", "s", "t", " ", "1", "0">>,
               <<"t", "e", "n", "-", "y", "e", "a", "r">>,
               <<"t", "e", "n", " ", "y", "e", "a", "r">>,
               <<"t", "r", "e", "a", "s", "u", "r", "y", " ", "y", "i", "e", "l", "d">>,
               <<"y", "i", "e", "l", "d">>,
               <<"y", "i", "e", "l", "d", "s">>},
     tag |-> <<"#", "U", "S", "T", "1", "0", "Y">>],
    [alts |-> {<<"2", "-", "y", "e", "a", "r">>,
               <<"2", " ", "y", "e", "a", "r">>,
               <<"2", "y", "e", "a", "r">>,
               <<"2", "y">>,
               <<"u", "s", "t", "2">>},
     tag |-> <<"#", "U", "S", "T", "2", "Y">>],
    [alts |-> {<<"c", "p", "i">>,
               <<"p", "p", "i">>,
               <<"p", "c", "e">>,
               <<"c", "o", "r", "e", " ", "p", "c", "e">>,
               <<"p", "a", "y", "r", "o", "l", "l", "s">>,
               <<"n", "f", "p">>,
               <<"u", "n", "e", "m", "p", "l", "o", "y", "m", "e", "n", "t">>},
     tag |-> <<"#", "D", "A", "T", "A">>],
    [alts |-> {<<"f", "e", "d">>,
               <<"p", "o", "w", "e", "l", "l">>,
               <<"f", "o", "m", "c">>,
               <<"d", "o", "t", " ", "p", "l", "o", "t">>,
               <<"h", "i", "k", "e">>,
               <<"c", "u", "t">>,
               <<"r", "a", "t", "e", " ", "d", "e", "c", "i", "s", "i", "o", "n">>},
     tag |-> <<"#", "F", "e", "d">>],
    [alts |-> {<<"e", "c", "b">>,
               <<"l", "a", "g", "a", "r", "d", "e">>,
               <<"b", "o", "j">>,
               <<"b", "o", "e">>,
               <<"s", "n", "b">>,
               <<"r", "b", "a">>,
               <<"b", "o", "c">>},
     tag |-> <<"#", "C", "B">>],
    [alts |-> {<<"r", "i", "s", "k", "-", "o", "n">>,
               <<"r", "i", "s", "k", " ", "o", "n">>,
               <<"r", "i", "s", "k", "o", "n">>,
               <<"r", "i", "s", "k", "-", "o", "f", "f">>,
               <<"r", "i", "s", "k", " ", "o", "f", "f">>,
               <<"r", "i", "s", "k", "o", "f", "f">>,
               <<"s", "e", "n", "t", "i", "m", "e", "n", "t">>},
     tag |-> <<"#", "R", "I", "S", "K">>]
  >>

\* re.search(r"\b(alt)\b", text): alt occurs at a place where a word boundary
\* precedes and follows it (every alternative starts and ends with a \w
\* character). The first character is compared first, then the rest.
AltAt(alt, text, i) ==
  /\ text[i] = alt[1]
  /\ i + Len(alt) - 1 <= Len(text)
  /\ SubSeq(text, i, i + Len(alt) - 1) = alt
  /\ (i = 1 \/ ~IsWordChar(text[i - 1]))
  /\ (i + Len(alt) > Len(text) \/ ~IsWordChar(text[i + Len(alt)]))
Search(pat, text) == \E alt \in pat.alts : \E i \in 1..Len(text) : AltAt(alt, text, i)

\* The first loop of _extract_tags: the tag of every matching pattern, in
\* table order.
RECURSIVE MatchedTags(_, _)
MatchedTags(k, lower) ==
  IF k > Len(KEYWORD_TAGS) THEN <<>>
  ELSE (IF Search(KEYWORD_TAGS[k], lower) THEN <<KEYWORD_TAGS[k].tag>> ELSE <<>>)
       \o MatchedTags(k + 1, lower)

\* The second loop of _extract_tags: first occurrences only.
RECURSIVE Dedup(_)
Dedup(tags) ==
  IF tags = <<>> THEN <<>>
  ELSE LET init == Dedup(SubSeq(tags, 1, Len(tags) - 1))
           last == tags[Len(tags)]
       IN IF IsIn(last, init) THEN init ELSE Append(init, last)

extract_tags(text) == Dedup(MatchedTags(1, Lower(text)))

\* str.strip("/")
RECURSIVE StripSlashes(_)
StripSlashes(s) ==
  IF s = <<>> THEN s
  ELSE IF Head(s) = "/" THEN StripSlashes(Tail(s))
  ELSE IF s[Len(s)] = "/" THEN StripSlashes(SubSeq(s, 1, Len(s) - 1))
  ELSE s

\* path.split("/", 1)[0]
RECURSIVE FirstSegment(_)
FirstSegment(s) ==
  IF s = <<>> \/ Head(s) = "/" THEN <<>>
  ELSE <<Head(s)>> \o FirstSegment(Tail(s))

\* first.replace('-', '_')
RECURSIVE ReplaceHyphens(_)
ReplaceHyphens(s) ==
  IF s = <<>> THEN <<>>
  ELSE <<IF Head(s) = "-" THEN "_" ELSE Head(s)>> \o ReplaceHyphens(Tail(s))

\* _section_tag_from_url. A link is what urlparse makes of it: its path, or
\* the ValueError urlparse raises.
section_tag_from_url(link) ==
  IF ~link.parses THEN Nothing
  ELSE LET first == FirstSegment(StripSlashes(link.path)) IN
       IF first # <<>> THEN Some(Upper(<<"#">> \o ReplaceHyphens(first))) ELSE Nothing

\* Mutant of InsertSection: the section tag is inserted without the
\* `not in tags` test.
InsertSectionAlways(tags, sec) ==
  IF sec.has /\ sec.val # <<>> THEN <<sec.val>> \o tags ELSE tags

\* if sec and sec not in tags: tags.insert(0, sec)
InsertSection(tags, sec) ==
  IF sec.has /\ sec.val # <<>> /\ ~IsIn(sec.val, tags) THEN <<sec.val>> \o tags ELSE tags

\* Inputs of the normalizer: titles and summaries (the summary is the text
\* _html_to_text returned) and link paths.
TitleGoldFed == <<"G", "o", "l", "d", " ", "r", "a", "l", "l", "i", "e", "s", " ", "a", "s", " ", "F", "e", "d", " ", "s", "i", "g", "n", "a", "l", "s", " ", "c", "u", "t">>
TitleOil == <<"B", "r", "e", "n", "t", " ", "o", "i", "l", " ", "s", "l", "i", "p", "s">>
TitleGoldOil == <<"G", "o", "l", "d", " ", "u", "p", ",", " ", "o", "i", "l", " ", "d", "o", "w", "n">>
TitlePlain == <<"M", "a", "r", "k", "e", "t", "s", " ", "w", "r", "a", "p">>
SummaryYen == <<"U", "S", "D", "/", "J", "P", "Y", " ", "d", "i", "p", "s", ";", " ", "1", "2", "-", "y", "e", "a", "r", " ", "l", "o", "w">>
SummaryNone == <<>>
PathOil == <<"/", "o", "i", "l", "/", "b", "r", "e", "n", "t", "-", "s", "l", "i", "p", "s">>
PathCentralBank == <<"/", "c", "e", "n", "t", "r", "a", "l", "-", "b", "a", "n", "k", "/", "e", "c", "b", "-", "p", "r", "e", "v", "i", "e", "w">>
PathFed == <<"/", "f", "e", "d", "/">>
PathRoot == <<"/">>
PathNone == <<>>

\* ------------------------------------------------------------ timestamps
\* Time is counted in whole hours of a short calendar, 0..MaxHour, and a
\* formatted timestamp ("%Y-%m-%d %H:%M", fixed width, zero padded) is the
\* two decimal digits of the hour count.
MaxHour == 24
UtcOffsets == {-2, 5}

\* The offset of America/New_York: daylight time up to the middle of the
\* calendar, standard time after it.
NyOffset(utc) == IF utc < MaxHour \div 2 THEN -4 ELSE -5

\* _to_ny: a naive datetime is taken as UTC; astimezone(NY_TZ).
to_ny(dt) ==
  LET utc == IF dt.naive THEN dt.wall ELSE dt.wall - dt.off
  IN utc + NyOffset(utc)

\* strftime and dtparse.parse of a formatted timestamp.
Format(t) == <<Digits[(t \div 10) + 1], Digits[(t % 10) + 1]>>
ParseStamp(s) == 10 * (IndexIn(s[1], Digits) - 1) + (IndexIn(s[2], Digits) - 1)

\* A date string of an entry: "" (DateAbsent), one dateutil cannot parse, or
\* one it parses to a datetime, naive or with an offset.
DateAbsent == [kind |-> "absent", naive |-> TRUE, wall |-> 0, off |-> 0]
DateBad == [kind |-> "bad", naive |-> TRUE, wall |-> 0, off |-> 0]
DateNaive(w) == [kind |-> "ok", naive |-> TRUE, wall |-> w, off |-> 0]
DateAware(w, o) == [kind |-> "ok", naive |-> FALSE, wall |-> w, off |-> o]

\* _coerce_dt(s, fallback_struct): the datetime, or Nothing.
coerce_dt(s, fallback_struct) ==
  IF s.kind = "absent" /\ ~fallback_struct.has THEN Nothing
  ELSE IF s.kind = "ok" THEN Some([naive |-> s.naive, wall |-> s.wall, off |-> s.off])
  ELSE IF fallback_struct.has
    THEN Some([naive |-> FALSE, wall |-> fallback_struct.val, off |-> 0])
  ELSE Nothing

\* e.get("published") or e.get("updated") or ""
DateRaw(e) == IF e.published.kind # "absent" THEN e.published ELSE e.updated
\* e.get("published_parsed") or e.get("updated_parsed")
DateStruct(e) == IF e.published_parsed.has THEN e.published_parsed ELSE e.updated_parsed

\* The body of the loop of parse_feed: the Item of one entry.
Normalize(e) ==
  LET dt == coerce_dt(DateRaw(e), DateStruct(e))
      all_text == e.title \o <<" ">> \o e.summary
  IN [title |-> e.title,
      link |-> e.link,
      published_ny |-> IF dt.has THEN Some(Format(to_ny(dt.val))) ELSE Nothing,
      tags |-> InsertSection(extract_tags(all_text), section_tag_from_url(e.link)),
      summary |-> e.summary]

\* key=lambda x: x.published_ny or ""
SortKey(it) == IF it.published_ny.has THEN it.published_ny.val ELSE <<>>

\* Mutant of Before: the sort without reverse=True.
BeforeAscending(x, y) == StrLess(SortKey(x), SortKey(y))

\* Whether item x goes before item y in items.sort(key=..., reverse=True).
Before(x, y) == StrLess(SortKey(y), SortKey(x))

\* list.sort is stable, also with reverse=True: x is put behind every item
\* that does not sort after it.
RECURSIVE Insert(_, _)
Insert(sorted, x) ==
  IF sorted = <<>> THEN <<x>>
  ELSE IF Before(x, Head(sorted)) THEN <<x>> \o sorted
  ELSE <<Head(sorted)>> \o Insert(Tail(sorted), x)

RECURSIVE Sort(_)
Sort(s) == IF s = <<>> THEN <<>> ELSE Insert(Sort(SubSeq(s, 1, Len(s) - 1)), s[Len(s)])

\* parse_feed, from the entries feedparser recovered.
parse_feed(es) == Sort([i \in 1..Len(es) |-> Normalize(es[i])])

\* ---------------------------------------------------------------- filter
\* items[:limit]
Slice(s, n) ==
  IF n >= 0 THEN SubSeq(s, 1, Min(n, Len(s)))
  ELSE SubSeq(s, 1, Len(s) + n)

\* bool(x) of an Optional[int].
TruthyInt(x) == x.has /\ x.val # 0

\* The comprehension of filter_items: both datetimes carry NY_TZ, so Python
\* compares (and subtracts the timedelta from) their wall-clock values.
InWindow(it, hours, now) ==
  /\ it.published_ny.has
  /\ it.published_ny.val # <<>>
  /\ ParseStamp(it.published_ny.val) >= now - hours

Window(its, hours, now) ==
  IF TruthyInt(hours)
    THEN LET Keep(it) == InWindow(it, hours.val, now) IN SelectSeq(its, Keep)
    ELSE its

Limit(its, limit) == IF TruthyInt(limit) THEN Slice(its, limit.val) ELSE its

filter_items(its, hours, limit, now) == Limit(Window(its, hours, now), limit)


VARIABLES
  cacheFile,    \* content of CACHE_FILE
  clock,        \* datetime.now(timezone.utc), as a counter of saves
  file0,        \* history: CACHE_FILE before any call started
  pc,           \* per call: "idle", "loop", "done"
  max_retries,  \* per call: the max_retries argument
  cache,        \* per call: the dict _load_cache returned
  attempt,      \* per call: the loop variable
  backoff,      \* per call: backoff, in tenths of a second
  result,       \* per call: Pending, None, Raised or the body returned
  requests,     \* history: client.get calls made
  sleeps,       \* history: time.sleep calls made
  lastSleep,    \* history: argument of the latest time.sleep, in tenths
  lastStatus,   \* history: outcome of the latest client.get
  lastResp,     \* history: the 200 response received and its save outcome
  entries,      \* parse_feed: fp.entries
  items,        \* parse_feed: the list returned
  parsed,       \* parse_feed: whether it has returned
  fItems,       \* filter_items: the items argument
  fHours,       \* filter_items: the hours argument
  fLimit,       \* filter_items: the limit argument
  fNow,         \* filter_items: the wall clock of datetime.now(NY_TZ)
  fOut,         \* filter_items: the list returned
  filtered      \* filter_items: whether it has returned

fetchVars ==
  <<cacheFile, clock, file0, pc, max_retries, cache, attempt, backoff, result,
    requests, sleeps, lastSleep, lastStatus, lastResp>>

parseVars == <<entries, items, parsed>>
filterVars == <<fItems, fHours, fLimit, fNow, fOut, filtered>>
vars == <<fetchVars, parseVars, filterVars>>

InitCalls(files, retries) ==
  /\ cacheFile \in files
  /\ file0 = cacheFile
  /\ clock = 1
  /\ pc = [p \in Procs |-> "idle"]
  /\ max_retries \in retries
  /\ cache = [p \in Procs |-> EmptyDict]
  /\ attempt = [p \in Procs |-> 1]
  /\ backoff = [p \in Procs |-> InitialBackoff]
  /\ result = [p \in Procs |-> Pending]
  /\ requests = [p \in Procs |-> 0]
  /\ sleeps = [p \in Procs |-> 0]
  /\ lastSleep = [p \in Procs |-> 0]
  /\ lastStatus = [p \in Procs |-> "none"]
  /\ lastResp = [p \in Procs |-> NoResp]

\* The call returns `value` (or raises, value = Raised).
Return(p, value) ==
  /\ pc' = [pc EXCEPT ![p] = "done"]
  /\ result' = [result EXCEPT ![p] = value]
  /\ attempt' = attempt

\* The for loop moves on to the next attempt; when range(1, max_retries + 1)
\* is exhausted the function falls through to the final `return None`.
NextAttempt(p) ==
  IF attempt[p] + 1 > max_retries[p]
    THEN /\ pc' = [pc EXCEPT ![p] = "done"]
         /\ result' = [result EXCEPT ![p] = None]
         /\ attempt' = attempt
    ELSE /\ attempt' = [attempt EXCEPT ![p] = attempt[p] + 1]
         /\ UNCHANGED <<pc, result>>

Sleep(p, d) ==
  /\ sleeps' = [sleeps EXCEPT ![p] = sleeps[p] + 1]
  /\ lastSleep' = [lastSleep EXCEPT ![p] = d]

\* client.get(url) was called and ended with `status`.
Requested(p, status) ==
  /\ pc[p] = "loop"
  /\ attempt[p] <= max_retries[p]
  /\ requests' = [requests EXCEPT ![p] = requests[p] + 1]
  /\ lastStatus' = [lastStatus EXCEPT ![p] = status]

\* cache = _load_cache(); headers; backoff = 1.0; entering the for loop.
Load(p) ==
  /\ pc[p] = "idle"
  /\ cache' = [cache EXCEPT ![p] = LoadCache(cacheFile)]
  /\ backoff' = [backoff EXCEPT ![p] = InitialBackoff]
  /\ IF max_retries[p] < 1
       THEN /\ pc' = [pc EXCEPT ![p] = "done"]
            /\ result' = [result EXCEPT ![p] = None]
       ELSE /\ pc' = [pc EXCEPT ![p] = "loop"]
            /\ result' = result
  /\ UNCHANGED <<cacheFile, clock, file0, max_retries, attempt, requests, sleeps,
                 lastSleep, lastStatus, lastResp>>
  /\ UNCHANGED <<parseVars, filterVars>>

\* Mutant of On304: the 304 branch saves an empty record.
On304SavesEmpty(file) == JsonFile([etag |-> None, last_modified |-> None, fetched_at |-> 0])

\* What the 304 branch does to the cache file.
On304(file) == file

\* if r.status_code == 304: return None
Recv304(p) ==
  /\ Requested(p, "304")
  /\ cacheFile' = On304(cacheFile)
  /\ Return(p, None)
  /\ UNCHANGED <<clock, file0, max_retries, cache, backoff, sleeps, lastSleep, lastResp>>
  /\ UNCHANGED <<parseVars, filterVars>>

\* if r.status_code == 200: _save_cache(new_cache); return r.text
Recv200(p) ==
  \E e \in ETagHeaders, m \in LastModifiedHeaders, b \in Bodies, o \in SaveOutcomes :
    LET resp == [etag |-> e, last_modified |-> m, body |-> b, save |-> o] IN
    /\ Requested(p, "200")
    /\ cacheFile' = SaveCache(cacheFile, NewCache(resp, cache[p], clock), o)
    /\ clock' = clock + 1
    /\ lastResp' = [lastResp EXCEPT ![p] = resp]
    /\ Return(p, b)
    /\ UNCHANGED <<file0, max_retries, cache, backoff, sleeps, lastSleep>>
    /\ UNCHANGED <<parseVars, filterVars>>

\* if r.status_code in (429, 503): sleep, double the backoff, continue
RecvBusy(p) ==
  /\ Requested(p, "429/503")
  /\ Sleep(p, BusySleep(backoff[p], attempt[p]))
  /\ backoff' = [backoff EXCEPT ![p] = NextBackoff(backoff[p])]
  /\ NextAttempt(p)
  /\ UNCHANGED <<cacheFile, clock, file0, max_retries, cache, lastResp>>
  /\ UNCHANGED <<parseVars, filterVars>>

\* Any other status for which r.raise_for_status() returns normally (a 2xx
\* other than 200): nothing is raised, the loop goes on without a sleep.
RecvOtherOk(p) ==
  /\ Requested(p, "other-ok")
  /\ NextAttempt(p)
  /\ UNCHANGED <<cacheFile, clock, file0, max_retries, cache, backoff, sleeps,
                 lastSleep, lastResp>>
  /\ UNCHANGED <<parseVars, filterVars>>

\* Mutant of IsFinal: the except branch re-raises one attempt early.
IsFinalEarly(n, m) == n = m - 1

\* Whether the except branch re-raises.
IsFinal(n, m) == n = m

\* except httpx.HTTPError: raised by r.raise_for_status() ("error-status") or
\* by client.get ("transport").
RecvError(p) ==
  \E kind \in {"error-status", "transport"} :
    /\ Requested(p, kind)
    /\ IF IsFinal(attempt[p], max_retries[p])
         THEN /\ Return(p, Raised)
              /\ UNCHANGED <<backoff, sleeps, lastSleep>>
         ELSE /\ Sleep(p, ErrorSleep(backoff[p], attempt[p]))
              /\ backoff' = [backoff EXCEPT ![p] = NextBackoff(backoff[p])]
              /\ attempt' = [attempt EXCEPT ![p] = attempt[p] + 1]
              /\ UNCHANGED <<pc, result>>
    /\ UNCHANGED <<cacheFile, clock, file0, max_retries, cache, lastResp>>
    /\ UNCHANGED <<parseVars, filterVars>>

\* One step of the call p of polite_fetch.
Fetch(p) ==
  \/ Load(p)
  \/ Recv304(p)
  \/ Recv200(p)
  \/ RecvBusy(p)
  \/ RecvOtherOk(p)
  \/ RecvError(p)

\* ------------------------------------------------------------ normalizer
MaxEntries == 3

Entry(doc, date) ==
  [title |-> doc.title, summary |-> doc.summary, link |-> doc.link,
   published |-> date.published, updated |-> date.updated,
   published_parsed |-> date.published_parsed,
   updated_parsed |-> date.updated_parsed]

Doc(t, s, parses, path) ==
  [title |-> t, summary |-> s, link |-> [parses |-> parses, path |-> path]]
PlainDoc == Doc(TitlePlain, SummaryNone, TRUE, PathNone)
Docs ==
  {PlainDoc,
   Doc(TitleGoldFed, SummaryNone, TRUE, PathCentralBank),
   Doc(TitleGoldOil, SummaryNone, TRUE, PathOil),
   Doc(TitleGoldFed, SummaryYen, TRUE, PathFed),
   Doc(TitleOil, SummaryNone, TRUE, PathRoot),
   Doc(TitleGoldFed, SummaryNone, FALSE, PathNone)}

Dated(p, u, pp, up) ==
  [published |-> p, updated |-> u, published_parsed |-> pp, updated_parsed |-> up]
Undated == Dated(DateAbsent, DateAbsent, Nothing, Nothing)
\* The naive date and the structured one fall in the two hours that New York
\* shows with the same wall clock, before and after the end of daylight time.
Dates ==
  {Undated,
   Dated(DateBad, DateAbsent, Nothing, Nothing),
   Dated(DateBad, DateAbsent, Some(MaxHour \div 2), Nothing),
   Dated(DateAbsent, DateNaive((MaxHour \div 2) - 1), Nothing, Some(0))} \cup
  {Dated(DateAware(MaxHour - 4, o), DateAbsent, Nothing, Nothing) : o \in UtcOffsets}

Entries == {Entry(d, Undated) : d \in Docs} \cup {Entry(PlainDoc, t) : t \in Dates}

SeqsUpTo(S, n) == UNION {[1..k -> S] : k \in 0..n}

InitFetchIdle ==
  InitCalls({NoFile}, {[p \in Procs |-> 0]})
InitParseIdle ==
  /\ entries = <<>>
  /\ items = <<>>
  /\ parsed = FALSE
InitFilterIdle ==
  /\ fItems = <<>>
  /\ fHours = Nothing
  /\ fLimit = Nothing
  /\ fNow = 0
  /\ fOut = <<>>
  /\ filtered = FALSE

\* items = parse_feed(xml), on the entries of the feed.
ParseFeed ==
  /\ ~parsed
  /\ items' = parse_feed(entries)
  /\ parsed' = TRUE
  /\ UNCHANGED <<entries, fetchVars, filterVars>>

InitParse ==
  /\ entries \in SeqsUpTo(Entries, MaxEntries)
  /\ items = <<>>
  /\ parsed = FALSE
  /\ InitFetchIdle
  /\ InitFilterIdle
NextParse == ParseFeed
SpecParse == InitParse /\ [][NextParse]_vars

\* ---------------------------------------------------------- filter stage
MaxItems == 3
\* The published_ny values of the items given to filter_items, the clock
\* readings, and the hours and limit arguments tried.
StampHours == {MaxHour - 14, MaxHour - 13, MaxHour - 12}
NowHours == {MaxHour - 12, MaxHour - 11}
HoursArgs == {Nothing, Some(0), Some(1), Some(3)}
LimitArgs == {Nothing, Some(-1), Some(0), Some(1), Some(2), Some(MaxItems + 1)}

Stamps == {Nothing} \cup {Some(Format(t)) : t \in StampHours}
ItemAt(i, stamp) ==
  [title |-> <<Digits[i + 1]>>, link |-> [parses |-> TRUE, path |-> PathNone],
   published_ny |-> stamp, tags |-> <<>>, summary |-> <<>>]

FilterItems ==
  /\ ~filtered
  /\ fOut' = filter_items(fItems, fHours, fLimit, fNow)
  /\ filtered' = TRUE
  /\ UNCHANGED <<fItems, fHours, fLimit, fNow, fetchVars, parseVars>>

InitFilter ==
  /\ \E stamps \in SeqsUpTo(Stamps, MaxItems) :
       fItems = [i \in 1..Len(stamps) |-> ItemAt(i, stamps[i])]
  /\ fHours \in HoursArgs
  /\ fLimit \in LimitArgs
  /\ fNow \in NowHours
  /\ fOut = <<>>
  /\ filtered = FALSE
  /\ InitFetchIdle
  /\ InitParseIdle
NextFilter == FilterItems
SpecFilter == InitFilter /\ [][NextFilter]_vars

\* ---------------------------------------------- one call of polite_fetch
Init ==
  /\ InitCalls(InitialFiles, {[p \in Procs |-> IF p = 1 THEN m ELSE 0] : m \in 0..MaxRetriesBound})
  /\ InitParseIdle
  /\ InitFilterIdle
Next == Fetch(1)
Spec == Init /\ [][Next]_vars

\* --------------------------- two calls of polite_fetch served concurrently
InitConc ==
  /\ InitCalls(InitialFiles, [Procs -> 1..ConcRetriesBound])
  /\ InitParseIdle
  /\ InitFilterIdle
NextConc == \E p \in Procs : Fetch(p)
SpecConc == InitConc /\ [][NextConc]_vars
\* ================================================================ claims
\* ------------------------------------------------------------------- C1
\* C1: a call in which no attempt received a 200 or a 304 ends in a fetch
\* error, never in NoChange (None): it returns None only when an attempt
\* received a 304. (200 and 304 end the call, so an attempt received one of
\* them exactly when the latest attempt did.)
C1_NoChangeOnlyOn304 ==
  \A p \in Procs :
    (pc[p] = "done" /\ lastStatus[p] \notin {"200", "304"}) => result[p] = Raised

\* ------------------------------------------------------------------- C2
\* C2: the cache file is written only in the step that handles a 200. The
\* step that receives a 304 returns None at once, with no sleep, and leaves
\* the file as it was; so does every step that receives 429/503, another
\* error status or a transport error, and a call that saw no 200 leaves the
\* file identical to the file before the call.
C2_CacheWrittenOnlyOn200 ==
  [][\A p \in Procs :
       /\ (cacheFile' # cacheFile =>
             \E q \in Procs : requests'[q] = requests[q] + 1 /\ lastStatus'[q] = "200")
       /\ (requests'[p] # requests[p] /\ lastStatus'[p] = "304" =>
             /\ pc'[p] = "done"
             /\ result'[p] = None
             /\ sleeps'[p] = sleeps[p]
             /\ cacheFile' = cacheFile)
       /\ (pc[p] = "done" => requests'[p] = requests[p] /\ sleeps'[p] = sleeps[p])
       /\ (lastStatus'[1] # "200" => cacheFile' = file0')]_vars

\* A 304 on the third attempt of a call that sent a stored entity tag: the
\* call returned None and the file is the one it started from.
C2_Witness ==
  /\ pc[1] = "done"
  /\ lastStatus[1] = "304"
  /\ result[1] = None
  /\ requests[1] = 3
  /\ sleeps[1] = 2
  /\ Headers(cache[1]).if_none_match = "e1"
  /\ cacheFile = file0

\* ------------------------------------------------------------------- C3
\* The record of the file before the call, as the call loaded it.
PriorRecord == IF file0.kind = "json" THEN file0 ELSE NoFile

\* The validator a header value carries: an empty header carries none.
Carried(v) == IF v = "" THEN None ELSE v

\* C3 as stated, for the calls whose save succeeded: after a call that
\* received a 200 the call returned its body and the cache file holds the
\* entity tag and the last-modified value carried by that response, also
\* when the response carries none.
C3_StoresResponseValidators ==
  (pc[1] = "done" /\ lastStatus[1] = "200" /\ lastResp[1].save = "ok") =>
    /\ result[1] = lastResp[1].body
    /\ cacheFile.kind = "json"
    /\ Carried(cacheFile.etag) = Carried(lastResp[1].etag)
    /\ Carried(cacheFile.last_modified) = Carried(lastResp[1].last_modified)

\* C3 amended: the call returns the body of the 200 response; when the best
\* effort save succeeds the file holds, for each validator, the value the
\* response carries if it carries a non-empty one and the value loaded at the
\* start of the call otherwise, with the time of the save; when open() fails
\* the file is as it was, and when the write fails it no longer parses.
C3_StoresResponseOrPriorValidators ==
  (pc[1] = "done" /\ lastStatus[1] = "200") =>
    LET r == lastResp[1] IN
    /\ result[1] = r.body
    /\ requests[1] <= max_retries[1]
    /\ r.save = "ok" =>
         /\ cacheFile.kind = "json"
         /\ (r.etag \notin {None, ""} => cacheFile.etag = r.etag)
         /\ (r.etag \in {None, ""} => cacheFile.etag = PriorRecord.etag)
         /\ (r.last_modified \notin {None, ""} =>
               cacheFile.last_modified = r.last_modified)
         /\ (r.last_modified \in {None, ""} =>
               cacheFile.last_modified = PriorRecord.last_modified)
         /\ cacheFile.fetched_at = clock - 1
    /\ r.save = "open_fails" => cacheFile = file0
    /\ r.save = "write_fails" => cacheFile.kind = "corrupt"

\* 503, 503, then a 200 that carries a Last-Modified but no ETag: the stored
\* entity tag is still the one loaded, the last-modified value is the new one.
C3_Witness ==
  /\ pc[1] = "done"
  /\ lastStatus[1] = "200"
  /\ requests[1] = 3
  /\ sleeps[1] = 2
  /\ lastResp[1].etag = None
  /\ lastResp[1].last_modified = "m2"
  /\ lastResp[1].save = "ok"
  /\ result[1] = lastResp[1].body
  /\ file0.etag = "e1"
  /\ cacheFile.etag = "e1"
  /\ cacheFile.last_modified = "m2"

\* ------------------------------------------------------------------- C8
\* C8: every kind of failure uses the one attempt counter, so a call sends at
\* most max_retries requests; an error status other than 429/503 or a
\* transport error before the last attempt is followed by a sleep and a next
\* attempt, and on the last attempt it is raised to the caller with no sleep.
C8_SharedAttemptCounter ==
  [][\A p \in Procs :
       /\ requests'[p] <= max_retries'[p]
       /\ (pc'[p] = "loop" => requests'[p] = attempt'[p] - 1 /\ attempt'[p] <= max_retries'[p])
       /\ (requests'[p] # requests[p] /\ lastStatus'[p] \in {"error-status", "transport"} =>
             IF requests'[p] < max_retries[p]
               THEN /\ sleeps'[p] = sleeps[p] + 1
                    /\ pc'[p] = "loop"
                    /\ result'[p] = Pending
               ELSE /\ sleeps'[p] = sleeps[p]
                    /\ pc'[p] = "done"
                    /\ result'[p] = Raised)]_vars

\* A call with max_retries >= 3 whose every attempt failed, the last one
\* raising: max_retries requests and one sleep fewer.
C8_Witness ==
  /\ pc[1] = "done"
  /\ result[1] = Raised
  /\ max_retries[1] >= 3
  /\ requests[1] = max_retries[1]
  /\ sleeps[1] = max_retries[1] - 1
  /\ lastStatus[1] = "transport"

\* ------------------------------------------------------------------- C9
\* C9: the backoff is always one of 1, 2, 4, 8, 16, 30 s, 1 s until the first
\* sleep; every sleep lasts the current backoff, plus 0.1 s times the attempt
\* number after a 429/503, and is followed by the doubling of the backoff
\* capped at 30 s; no sleep is longer than 30 + 0.1 * max_retries seconds.
C9_BackoffValuesAndSleeps ==
  [][\A p \in Procs :
       /\ backoff'[p] \in {10, 20, 40, 80, 160, 300}
       /\ (sleeps'[p] = 0 => backoff'[p] = 10)
       /\ lastSleep'[p] <= 300 + max_retries'[p]
       /\ (sleeps'[p] # sleeps[p] =>
             /\ lastSleep'[p] =
                  backoff[p] + (IF lastStatus'[p] = "429/503" THEN requests'[p] ELSE 0)
             /\ backoff'[p] = (IF 2 * backoff[p] > 300 THEN 300 ELSE 2 * backoff[p]))
       /\ (sleeps'[p] = sleeps[p] => backoff'[p] = backoff[p] \/ pc[p] = "idle")]_vars

\* The sixth failed attempt, a 429/503: the sleep lasts the capped backoff of
\* 30 s plus 0.6 s.
C9_Witness ==
  /\ sleeps[1] = 6
  /\ lastStatus[1] = "429/503"
  /\ lastSleep[1] = BackoffCap + 6
  /\ backoff[1] = BackoffCap

\* ------------------------------------------------------------------ C10
\* What call p did to the file, replayed on `file` as if the call had run
\* alone: the save of its 200 response on the record loaded from `file`.
Replay(file, p) ==
  IF lastStatus[p] = "200"
    THEN SaveCache(file, NewCache(lastResp[p], LoadCache(file), 0), lastResp[p].save)
    ELSE file
Validators(file) ==
  [kind |-> file.kind, etag |-> file.etag, last_modified |-> file.last_modified]

\* C10: when two concurrent calls have finished, the cache file holds the
\* validators one of the two serial orders of the same calls would leave.
C10_SerialOutcome ==
  (\A p \in Procs : pc[p] = "done") =>
    Validators(cacheFile) \in
      {Validators(Replay(Replay(file0, 1), 2)), Validators(Replay(Replay(file0, 2), 1))}
\* ------------------------------------------------------------------- C4
\* C4: for every hours value given to filter_items, 0 included, every item
\* returned has a published_ny, and its timestamp is not before the clock
\* reading minus that many hours.
C4_ReturnedItemsInWindow ==
  (filtered /\ fHours.has) =>
    \A i \in 1..Len(fOut) :
      /\ fOut[i].published_ny.has
      /\ ParseStamp(fOut[i].published_ny.val) >= fNow - fHours.val

\* ------------------------------------------------------------------- C5
\* C5: for every integer limit given to filter_items, 0 included, at most
\* `limit` items are returned, and they are the first `limit` items of the
\* window-filtered input, in their order. (Stated for the limits that are
\* counts: no list has fewer than 0 items.)
C5_AtMostLimitItems ==
  (filtered /\ fLimit.has /\ fLimit.val >= 0) =>
    /\ Len(fOut) <= fLimit.val
    /\ LET windowed == Window(fItems, fHours, fNow)
       IN fOut = SubSeq(windowed, 1, Min(fLimit.val, Len(windowed)))

\* ------------------------------------------------------------------- C6
NoDuplicates(s) == \A i, j \in 1..Len(s) : s[i] = s[j] => i = j

\* The place in KEYWORD_TAGS of a keyword tag, 0 for any other tag.
TableIndex(tag) ==
  IF \E k \in 1..Len(KEYWORD_TAGS) : KEYWORD_TAGS[k].tag = tag
    THEN CHOOSE k \in 1..Len(KEYWORD_TAGS) : KEYWORD_TAGS[k].tag = tag
    ELSE 0

\* The tags of the patterns that match the text of an item.
MatchingTags(it) ==
  LET lower == Lower(it.title \o <<" ">> \o it.summary)
  IN {KEYWORD_TAGS[k].tag :
        k \in {n \in 1..Len(KEYWORD_TAGS) : Search(KEYWORD_TAGS[n], lower)}}

\* s lists exactly the matching keyword tags of the item, in table order.
KeywordTagsInTableOrder(s, it) ==
  /\ {s[i] : i \in 1..Len(s)} = MatchingTags(it)
  /\ \A i, j \in 1..Len(s) : i < j => TableIndex(s[i]) < TableIndex(s[j])

\* C6 as stated: the tags of every item hold no duplicate, and whenever the
\* link yields a section tag it is the first tag, followed by the keyword tags
\* in table order, also when the keyword table produces the same tag.
C6_SectionTagFirst ==
  parsed =>
    \A n \in 1..Len(items) :
      LET it == items[n]
          sec == section_tag_from_url(it.link)
      IN /\ NoDuplicates(it.tags)
         /\ sec.has =>
              /\ it.tags # <<>>
              /\ it.tags[1] = sec.val
              /\ KeywordTagsInTableOrder(Tail(it.tags), it)
                   \/ KeywordTagsInTableOrder(<<sec.val>> \o Tail(it.tags), it)

\* C6 amended: the tags of every item hold no duplicate; a section tag that
\* no matching pattern produces is the first tag, followed by the keyword
\* tags in table order; a section tag that a matching pattern also produces
\* is not inserted: the tags are the keyword tags in table order, the section
\* tag at its place in the table. Without a section tag the tags are the
\* keyword tags in table order.
C6_SectionTagFirstUnlessKeyword ==
  parsed =>
    \A n \in 1..Len(items) :
      LET it == items[n]
          sec == section_tag_from_url(it.link)
      IN /\ NoDuplicates(it.tags)
         /\ IF sec.has /\ sec.val \notin MatchingTags(it)
              THEN /\ it.tags # <<>>
                   /\ it.tags[1] = sec.val
                   /\ KeywordTagsInTableOrder(Tail(it.tags), it)
              ELSE KeywordTagsInTableOrder(it.tags, it)

\* An item under /oil/ whose text matches gold and oil: #XAU, then #OIL.
C6_Witness ==
  /\ parsed
  /\ \E n \in 1..Len(items) :
       /\ section_tag_from_url(items[n].link) = Some(<<"#", "O", "I", "L">>)
       /\ items[n].tags = <<(<<"#", "X", "A", "U">>), (<<"#", "O", "I", "L">>)>>

\* ------------------------------------------------------------------- C7
\* C7: the items parse_feed returns are in non-increasing order of
\* published_ny (as strings, and so as timestamps), and every item without a
\* published_ny comes after every item with one.
C7_SortedByPublishedDescending ==
  parsed =>
    /\ Len(items) = Len(entries)
    /\ \A i, j \in 1..Len(items) :
         i < j =>
           /\ ~StrLess(SortKey(items[i]), SortKey(items[j]))
           /\ items[j].published_ny.has => items[i].published_ny.has
           /\ (items[i].published_ny.has /\ items[j].published_ny.has) =>
                ParseStamp(items[i].published_ny.val) >= ParseStamp(items[j].published_ny.val)

\* Three entries, the first undated and the other two in ascending order of
\* date: the items come out newest first, the undated one last.
C7_Witness ==
  /\ parsed
  /\ Len(items) = 3
  /\ ~Normalize(entries[1]).published_ny.has
  /\ Normalize(entries[2]).published_ny.has
  /\ Normalize(entries[3]).published_ny.has
  /\ StrLess(SortKey(Normalize(entries[2])), SortKey(Normalize(entries[3])))
  /\ items = <<Normalize(entries[3]), Normalize(entries[2]), Normalize(entries[1])>>
====
